---- MODULE Spec2Model ----
(***************************************************************************)
(* State-machine model of gumtree_auto_relister.py: the relisting run      *)
(* (GumtreeAutoRelister.run_job) with its steps initialize, load_ad_data,  *)
(* login_to_gumtree, delete_ad, create_ad and close, driven by main and    *)
(* start_scheduler.  The page, the data file and the browser are the       *)
(* environment: every answer they can give is drawn with \E.               *)
(***************************************************************************)
EXTENDS FiniteSets, Integers, Naturals, Sequences, TLC

(* ---------------------------- bounds ----------------------------------- *)
\* number of run_job invocations explored in one process lifetime
MaxRuns == 2
\* largest configured MAX_RETRIES explored (the default, line 41, is 3)
MaxRetriesCfg == 3
\* largest configured jitter bound, in minutes, explored
MaxDelay == 2
\* largest number of listing entries on the "my ads" page
MaxAds == 2

(* ------------------------- configuration ------------------------------- *)
\* MAX_RETRIES, RANDOM_DELAY_MIN, RANDOM_DELAY_MAX are read from the
\* environment with int(os.getenv(...)): any integer can be configured.
Configs ==
    [MAX_RETRIES : 0..MaxRetriesCfg,
     RANDOM_DELAY_MIN : 0..MaxDelay,
     RANDOM_DELAY_MAX : 0..MaxDelay]

\* sys.argv[1] as main dispatches on it ("none": no argument)
Argvs == {"none", "--once", "--check", "other"}

(* --------------------------- listing data ------------------------------ *)
required_fields == {"title", "description", "postcode"}
\* keys a JSON object in the data file may carry
Fields == required_fields \cup {"category_url"}

\* A location (driver.current_url, category_url) is modelled by the words
\* the code tests it for with "in": "post-ad", "edit" (line 557) and a
\* success keyword "success" / "published" / "confirmation" (lines 522, 540)
UrlWords == {"post-ad", "edit", "success"}
Urls == SUBSET UrlWords

\* the default of ad_data.get("category_url", ...) (line 383)
DefaultCategoryUrl == {"post-ad"}

\* values of "category_url" in the data file: a posting page, an edit page,
\* a page whose address holds neither word, one that holds a success keyword
CategoryUrls == {{"post-ad"}, {"edit"}, {}, {"success"}}

\* None, as load_ad_data returns it and as self.ad_data starts
None == [status |-> "none", kind |-> "none", keys |-> {}, size |-> 0, url |-> {}]

\* What open()/json.load() find at AD_DATA_FILE when it is read.
\* kind: the Python type json.load produced; size: len() of it (0 or more),
\* keys: the keys of an object; url: the value of its "category_url" key
\* ({} without the key).  Arrays and strings are taken not to contain the
\* required field names.
AdDataFiles ==
    {[status |-> s, kind |-> "none", keys |-> {}, size |-> 0, url |-> {}] :
        s \in {"missing", "unreadable", "malformed"}}
    \cup {[status |-> "ok", kind |-> "object", keys |-> K, size |-> Cardinality(K),
           url |-> {}] : K \in SUBSET required_fields}
    \cup {[status |-> "ok", kind |-> "object", keys |-> K \cup {"category_url"},
           size |-> Cardinality(K) + 1, url |-> u] :
        K \in SUBSET required_fields, u \in CategoryUrls}
    \cup {[status |-> "ok", kind |-> k, keys |-> {}, size |-> n, url |-> {}] :
        k \in {"array", "string"}, n \in 0..1}
    \cup {[status |-> "ok", kind |-> "scalar", keys |-> {}, size |-> 0, url |-> {}]}

\* ad_data.get("category_url", "https://www.gumtree.com/post-ad") (line 383)
category_url(data) ==
    IF "category_url" \in data.keys THEN data.url ELSE DefaultCategoryUrl

\* Python truthiness of a loaded value: None, {}, [] and "" are falsy
Truthy(v) == v.status = "ok" /\ v.size > 0

\* missing_fields of load_ad_data (line 351)
missing_fields(v) == required_fields \ v.keys

\* load_ad_data: the value it returns for the file it finds.  A missing
\* file, an unreadable file, malformed JSON, and a value on which
\* "field not in ad_data" raises TypeError (number, bool, null) give None.
load_ad_data_ret(f) ==
    IF f.status # "ok" THEN None
    ELSE IF f.kind = "scalar" THEN None
    ELSE f

\* load_ad_data_store keeping a payload it already holds instead of the
\* one just read
load_ad_data_store_cached(old, f) ==
    IF Truthy(old) THEN old
    ELSE IF load_ad_data_ret(f) = None THEN old ELSE f

\* self.ad_data after load_ad_data: assigned only when the load returns data
load_ad_data_store(old, f) ==
    IF load_ad_data_ret(f) = None THEN old ELSE f

(* ------------------------------ state ---------------------------------- *)
VARIABLES
    config,     \* the environment-derived configuration (lines 41-43)
    creds,      \* GUMTREE_EMAIL and GUMTREE_PASSWORD are both set
    argv,       \* sys.argv[1]
    mainPc,     \* position of main / start_scheduler
    pc,         \* position of the current run_job invocation
    driver,     \* WebDriverWrapper.driver: 0 is None, else a session id
    live,       \* browser sessions started and not yet quit
    sessions,   \* number of browser sessions started so far
    ad_data,    \* GumtreeAutoRelister.ad_data
    runs,       \* number of run_job invocations so far
    run,        \* what the current (or last) run_job invocation has done
    call        \* a single call of delete_ad or create_ad made on its own:
                \* the page it met, the data it was given, what it did

vars == <<call, config, creds, argv, mainPc, pc, driver, live, sessions, ad_data, runs, run>>

\* no call made on its own
NoCall == [fn |-> "none", env |-> <<>>, data |-> None, out |-> <<>>]

\* the record of a run that has done nothing yet
NewRun ==
    [jitter   |-> -1,       \* delay_minutes drawn (-1: none drawn)
     slept    |-> 0,        \* minutes of jitter slept
     inits    |-> 0,        \* WebDriverWrapper.initialize calls
     session  |-> 0,        \* session started by initialize in this run
     acquired |-> 0,        \* sessions started in this run
     released |-> 0,        \* driver.quit() calls in this run
     loads    |-> 0,        \* load_ad_data calls
     loadOk   |-> FALSE,    \* load_ad_data returned data
     loaded   |-> None,     \* what the file held when it was read
     changed  |-> FALSE,    \* it differed from the payload of an earlier run
     logins   |-> 0,        \* login_to_gumtree calls
     loginOk  |-> FALSE,
     deletes  |-> 0,        \* delete_ad calls
     deleteOk |-> FALSE,
     attempts |-> 0,        \* create_ad calls
     delays   |-> 0,        \* time.sleep(5) calls of the retry loop
     shots    |-> 0,        \* snapshots saved by the create_ad calls
     noForm   |-> FALSE,    \* the first create_ad found no postcode field
     created  |-> FALSE,    \* some create_ad returned True
     escaped  |-> FALSE,    \* some create_ad raised
     interrupted |-> FALSE, \* a KeyboardInterrupt was raised inside the run
     pending  |-> "none",   \* outcome on its way through the finally block
     result   |-> "none"]   \* "success" (True), "failure" (False), "raised"
                            \* (an Exception), "interrupted" (KeyboardInterrupt)

Init ==
    /\ config \in Configs
    /\ creds \in BOOLEAN
    /\ argv \in Argvs
    /\ mainPc = "start"
    /\ pc = "idle"
    /\ driver = 0
    /\ live = {}
    /\ sessions = 0
    /\ ad_data = None
    /\ runs = 0
    /\ run = NewRun
    /\ call = NoCall

\* a caller invokes run_job: a fresh activation record
CallRunJob ==
    /\ pc' = "jitter"
    /\ runs' = runs + 1
    /\ run' = NewRun

(* ------------------------------ main ----------------------------------- *)
\* main dispatching without the credential check of lines 660-662
main_nocredcheck ==
    /\ mainPc = "start"
    /\ pc = "idle"
    /\ CASE argv = "--once" ->
              /\ CallRunJob
              /\ mainPc' = "once"
              /\ UNCHANGED ad_data
         [] argv = "--check" ->
              /\ \E f \in AdDataFiles : ad_data' = load_ad_data_store(ad_data, f)
              /\ mainPc' = "checked"
              /\ UNCHANGED <<pc, runs, run>>
         [] argv = "other" ->
              /\ mainPc' = "exited"
              /\ UNCHANGED <<pc, runs, run, ad_data>>
         [] argv = "none" ->
              /\ CallRunJob
              /\ mainPc' = "first_run"
              /\ UNCHANGED ad_data
    /\ UNCHANGED <<call, config, creds, argv, driver, live, sessions>>

\* main sending every argument but --once and --check to the scheduler
main_otherstarts ==
    /\ mainPc = "start"
    /\ pc = "idle"
    /\ IF ~creds
       THEN /\ mainPc' = "exited"
            /\ UNCHANGED <<pc, runs, run, ad_data>>
       ELSE CASE argv = "--once" ->
                   /\ CallRunJob
                   /\ mainPc' = "once"
                   /\ UNCHANGED ad_data
              [] argv = "--check" ->
                   /\ \E f \in AdDataFiles : ad_data' = load_ad_data_store(ad_data, f)
                   /\ mainPc' = "checked"
                   /\ UNCHANGED <<pc, runs, run>>
              [] argv \in {"other", "none"} ->
                   /\ CallRunJob
                   /\ mainPc' = "first_run"
                   /\ UNCHANGED ad_data
    /\ UNCHANGED <<call, config, creds, argv, driver, live, sessions>>

\* main (lines 656-684): the credential check and the dispatch on argv;
\* "checked" is the return of the --check branch, after load_ad_data
main ==
    /\ mainPc = "start"
    /\ pc = "idle"
    /\ IF ~creds
       THEN /\ mainPc' = "exited"
            /\ UNCHANGED <<pc, runs, run, ad_data>>
       ELSE CASE argv = "--once" ->
                   /\ CallRunJob
                   /\ mainPc' = "once"
                   /\ UNCHANGED ad_data
              [] argv = "--check" ->
                   /\ \E f \in AdDataFiles : ad_data' = load_ad_data_store(ad_data, f)
                   /\ mainPc' = "checked"
                   /\ UNCHANGED <<pc, runs, run>>
              [] argv = "other" ->
                   /\ mainPc' = "exited"
                   /\ UNCHANGED <<pc, runs, run, ad_data>>
              [] argv = "none" ->
                   \* start_scheduler, line 641: the immediate first run
                   /\ CallRunJob
                   /\ mainPc' = "first_run"
                   /\ UNCHANGED ad_data
    /\ UNCHANGED <<call, config, creds, argv, driver, live, sessions>>

\* run_job returns to main (--once, line 671); a fault is caught by main's
\* except Exception (line 685), a KeyboardInterrupt is not and leaves main
once_return ==
    /\ mainPc = "once"
    /\ pc = "done"
    /\ mainPc' = IF run.result = "interrupted" THEN "killed" ELSE "exited"
    /\ pc' = "idle"
    /\ UNCHANGED <<call, config, creds, argv, driver, live, sessions, ad_data, runs, run>>

\* start_scheduler, lines 641-644: the first run_job returns and the job is
\* registered; a fault of the first run is outside the try of line 646 and
\* ends start_scheduler (main's except Exception catches it; it does not
\* catch a KeyboardInterrupt, which leaves start_scheduler and main)
start_scheduler ==
    /\ mainPc = "first_run"
    /\ pc = "done"
    /\ mainPc' = IF run.result = "raised" THEN "exited"
                 ELSE IF run.result = "interrupted" THEN "killed"
                 ELSE "loop"
    /\ pc' = "idle"
    /\ UNCHANGED <<call, config, creds, argv, driver, live, sessions, ad_data, runs, run>>

\* the job registered before the first run and fired from a timer of its
\* own, whether or not the previous run_job has returned
run_pending_overlap ==
    /\ mainPc \in {"first_run", "loop"}
    /\ pc # "jitter"
    /\ runs < MaxRuns
    /\ CallRunJob
    /\ UNCHANGED <<call, config, creds, argv, mainPc, driver, live, sessions, ad_data>>

\* schedule.run_pending() (line 648) finds the job due and calls run_job
run_pending ==
    /\ mainPc = "loop"
    /\ pc = "idle"
    /\ runs < MaxRuns
    /\ CallRunJob
    /\ UNCHANGED <<call, config, creds, argv, mainPc, driver, live, sessions, ad_data>>

\* the scheduled run_job returns into the loop of lines 647-649; a fault is
\* caught by line 652 and ends the loop, a KeyboardInterrupt by line 650
run_pending_return ==
    /\ mainPc = "loop"
    /\ pc = "done"
    /\ mainPc' = IF run.result = "raised" THEN "exited"
                 ELSE IF run.result = "interrupted" THEN "stopped"
                 ELSE "loop"
    /\ pc' = "idle"
    /\ UNCHANGED <<call, config, creds, argv, driver, live, sessions, ad_data, runs, run>>

(* ----------------------------- run_job --------------------------------- *)
\* run_job_delay drawing the delay for the first run of the process only
run_job_delay_once ==
    /\ pc = "jitter"
    /\ IF config.RANDOM_DELAY_MAX > 0 /\ runs = 1
       THEN IF config.RANDOM_DELAY_MIN > config.RANDOM_DELAY_MAX
            THEN /\ run' = [run EXCEPT !.result = "raised"]
                 /\ pc' = "done"
            ELSE /\ \E d \in config.RANDOM_DELAY_MIN..config.RANDOM_DELAY_MAX :
                        run' = [run EXCEPT !.jitter = d,
                                           !.slept = IF d > 0 THEN d ELSE 0]
                 /\ pc' = "init"
       ELSE /\ pc' = "init"
            /\ UNCHANGED run
    /\ UNCHANGED <<call, config, creds, argv, mainPc, driver, live, sessions, ad_data, runs>>

\* lines 579-584: the random delay before the run.  random.randint(a, b)
\* raises ValueError when a > b, outside every try of run_job.
run_job_delay ==
    /\ pc = "jitter"
    /\ IF config.RANDOM_DELAY_MAX > 0
       THEN IF config.RANDOM_DELAY_MIN > config.RANDOM_DELAY_MAX
            THEN /\ run' = [run EXCEPT !.result = "raised"]
                 /\ pc' = "done"
            ELSE /\ \E d \in config.RANDOM_DELAY_MIN..config.RANDOM_DELAY_MAX :
                        run' = [run EXCEPT !.jitter = d,
                                           !.slept = IF d > 0 THEN d ELSE 0]
                 /\ pc' = "init"
       ELSE /\ pc' = "init"
            /\ UNCHANGED run
    /\ UNCHANGED <<call, config, creds, argv, mainPc, driver, live, sessions, ad_data, runs>>

\* what webdriver.Chrome(...) and driver.implicitly_wait(10) can do in
\* WebDriverWrapper.initialize (lines 77-78)
InitializeOutcomes == {"ok", "chrome_fault", "wait_fault"}

\* lines 586-592 with WebDriverWrapper.initialize (lines 51-80).  The
\* session exists, and self.driver holds it, from line 77 on; a fault of
\* line 77 or 78 makes run_job return False at line 592.
initialize ==
    /\ pc = "init"
    /\ \E o \in InitializeOutcomes :
         IF o = "chrome_fault"
         THEN /\ run' = [run EXCEPT !.inits = @ + 1, !.result = "failure"]
              /\ pc' = "done"
              /\ UNCHANGED <<driver, live, sessions>>
         ELSE /\ sessions' = sessions + 1
              /\ driver' = sessions + 1
              /\ live' = live \cup {sessions + 1}
              /\ IF o = "wait_fault"
                 THEN /\ run' = [run EXCEPT !.inits = @ + 1,
                                            !.acquired = @ + 1,
                                            !.session = sessions + 1,
                                            !.result = "failure"]
                      /\ pc' = "done"
                 ELSE /\ run' = [run EXCEPT !.inits = @ + 1,
                                            !.acquired = @ + 1,
                                            !.session = sessions + 1]
                      /\ pc' = "load"
    /\ UNCHANGED <<call, config, creds, argv, mainPc, ad_data, runs>>

\* run_job_load with the early return of line 598 lost: a failed load falls
\* through to the login
run_job_load_noabort ==
    /\ pc = "load"
    /\ \E f \in AdDataFiles :
         /\ ad_data' = load_ad_data_store(ad_data, f)
         /\ run' = [run EXCEPT !.loads = @ + 1, !.loaded = f,
                               !.loadOk = load_ad_data_ret(f) # None]
         /\ pc' = "login"
    /\ UNCHANGED <<call, config, creds, argv, mainPc, driver, live, sessions, runs>>

\* lines 596-598: "if not self.load_ad_data(): return False"
run_job_load ==
    /\ pc = "load"
    /\ \E f \in AdDataFiles :
         /\ ad_data' = load_ad_data_store(ad_data, f)
         /\ IF Truthy(load_ad_data_ret(f))
            THEN /\ run' = [run EXCEPT !.loads = @ + 1, !.loaded = f,
                                       !.changed = Truthy(ad_data) /\ f # ad_data,
                                       !.loadOk = load_ad_data_ret(f) # None]
                 /\ pc' = "login"
            ELSE /\ run' = [run EXCEPT !.loads = @ + 1, !.loaded = f,
                                       !.changed = Truthy(ad_data) /\ f # ad_data,
                                       !.loadOk = load_ad_data_ret(f) # None,
                                       !.pending = "failure"]
                 /\ pc' = "finally"
    /\ UNCHANGED <<call, config, creds, argv, mainPc, driver, live, sessions, runs>>

(* ------------------------ login_to_gumtree ----------------------------- *)
\* What the sign-in page answers: fault is a driver call raising anything
\* but the TimeoutException / NoSuchElementException that safe_find_element
\* turns into None; the other fields say whether the element is found.
LoginPages ==
    [fault : BOOLEAN, email : BOOLEAN, password : BOOLEAN,
     button : BOOLEAN, account : BOOLEAN]

\* login_to_gumtree (lines 138-205): True only when the form, the button and
\* the post-login link are all found; every fault is caught at line 202
login_to_gumtree(e) ==
    IF e.fault THEN FALSE
    ELSE IF ~e.email THEN FALSE
    ELSE IF ~e.password THEN FALSE
    ELSE IF ~e.button THEN FALSE
    ELSE e.account

LoginOutcomes == {login_to_gumtree(e) : e \in LoginPages}

\* run_job_login with the early return of line 602 lost: a failed login
\* falls through to the deletion
run_job_login_noabort ==
    /\ pc = "login"
    /\ \E ok \in LoginOutcomes :
         run' = [run EXCEPT !.logins = @ + 1, !.loginOk = ok]
    /\ pc' = "delete"
    /\ UNCHANGED <<call, config, creds, argv, mainPc, driver, live, sessions, ad_data, runs>>

\* lines 599-602
run_job_login ==
    /\ pc = "login"
    /\ \E ok \in LoginOutcomes :
         IF ok
         THEN /\ run' = [run EXCEPT !.logins = @ + 1, !.loginOk = TRUE]
              /\ pc' = "delete"
         ELSE /\ run' = [run EXCEPT !.logins = @ + 1, !.pending = "failure"]
              /\ pc' = "finally"
    /\ UNCHANGED <<call, config, creds, argv, mainPc, driver, live, sessions, ad_data, runs>>

(* ----------------------------- delete_ad ------------------------------- *)
\* What the "my ads" page answers during one delete_ad call.  fault: the
\* driver call that raises something the safe_* helpers do not catch
\* ("get": lines 212-221; "direct", "menu", "menuDelete", "icon": the
\* lookups of lines 233, 242, 254, 264; "menuClick", "click",
\* "confirmClick": the clicks of lines 250, 281, 294; "confirm",
\* "indicator": the lookups of lines 286, 301-308; "refresh": lines
\* 311-317).  ads / adsAfter: entries listed before and after the reload.
\* shotFault: driver.save_screenshot raises.
DeletePages ==
    [fault : {"none", "get", "direct", "menu", "menuClick", "menuDelete", "icon",
              "click", "confirm", "confirmClick", "indicator", "refresh"},
     container : BOOLEAN, ads : 0..MaxAds,
     direct : BOOLEAN, menu : BOOLEAN, menuDelete : BOOLEAN, icon : BOOLEAN,
     deleteClick : BOOLEAN, confirm : BOOLEAN, confirmClick : BOOLEAN,
     adsAfter : 0..MaxAds, shotFault : BOOLEAN]

\* the fallback chain opening the menu before it looks for a direct button
fallback_chain_menufirst(e) ==
    LET mc == IF e.menu THEN <<"menu">> ELSE <<>>
        r(tried, clicks, button, raised) ==
            [tried |-> tried, clicks |-> clicks, button |-> button, raised |-> raised]
    IN
    IF e.fault = "menu" THEN r(<<"menu">>, <<>>, "none", TRUE)
    ELSE IF e.menu /\ e.fault \in {"menuClick", "menuDelete"}
         THEN r(<<"menu">>, mc, "none", TRUE)
    ELSE IF e.menu /\ e.menuDelete THEN r(<<"menu">>, mc, "menu", FALSE)
    ELSE IF e.fault = "direct" THEN r(<<"menu", "direct">>, mc, "none", TRUE)
    ELSE IF e.direct THEN r(<<"menu", "direct">>, mc, "direct", FALSE)
    ELSE IF e.fault = "icon" THEN r(<<"menu", "direct", "icon">>, mc, "none", TRUE)
    ELSE IF e.icon THEN r(<<"menu", "direct", "icon">>, mc, "icon", FALSE)
    ELSE r(<<"menu", "direct", "icon">>, mc, "none", FALSE)

\* the fallback chain of lines 231-269.  tried: the strategies evaluated,
\* in order; clicks: the clicks issued on the way; button: the strategy
\* whose control delete_button ends as ("none": not found); raised: a
\* lookup or the menu click raised
fallback_chain(e) ==
    LET mc == IF e.menu THEN <<"menu">> ELSE <<>>
        r(tried, clicks, button, raised) ==
            [tried |-> tried, clicks |-> clicks, button |-> button, raised |-> raised]
    IN
    IF e.fault = "direct" THEN r(<<"direct">>, <<>>, "none", TRUE)
    ELSE IF e.direct THEN r(<<"direct">>, <<>>, "direct", FALSE)
    ELSE IF e.fault = "menu" THEN r(<<"direct", "menu">>, <<>>, "none", TRUE)
    ELSE IF e.menu /\ e.fault \in {"menuClick", "menuDelete"}
         THEN r(<<"direct", "menu">>, mc, "none", TRUE)
    ELSE IF e.menu /\ e.menuDelete THEN r(<<"direct", "menu">>, mc, "menu", FALSE)
    ELSE IF e.fault = "icon" THEN r(<<"direct", "menu", "icon">>, mc, "none", TRUE)
    ELSE IF e.icon THEN r(<<"direct", "menu", "icon">>, mc, "icon", FALSE)
    ELSE r(<<"direct", "menu", "icon">>, mc, "none", FALSE)

\* the delete control the fallback chain ends with ("none": not found)
delete_button(e) == fallback_chain(e).button

\* what the listings page showed ("fault": line 212-221 raised, "absent":
\* no listings container, "empty": a container without entries, "listed")
listings_page(e) ==
    IF e.fault = "get" THEN "fault"
    ELSE IF ~e.container THEN "absent"
    ELSE IF e.ads = 0 THEN "empty" ELSE "listed"

\* delete_ad returned before the search for a delete control
NoChain == [tried |-> <<>>, clicks |-> <<>>, button |-> "none", raised |-> FALSE]

\* what one delete_ad call did.  ok: the value returned; clicks: the clicks
\* issued, in order; shots: snapshots saved; tried, button: as in
\* fallback_chain; deleted: the click on the
\* delete control succeeded; confirmed: a confirmation control was found
\* and its click succeeded; reloaded: the page was reloaded and the entries
\* counted again; after: that count
delete_ad_out(e, ch, ok, clicks, shots, deleted, confirmed, reloaded) ==
    [ok |-> ok, clicks |-> clicks, shots |-> shots, page |-> listings_page(e),
     tried |-> ch.tried, button |-> ch.button,
     deleted |-> deleted, confirmed |-> confirmed, reloaded |-> reloaded,
     before |-> e.ads, after |-> IF reloaded THEN e.adsAfter ELSE 0]

\* delete_ad trusting the confirmation click: the entries are counted again
\* but the count does not decide the value returned
delete_ad_listed_norecount(e) ==
    LET ch == fallback_chain(e)
        del == ch.clicks \o <<"delete">>
        conf == ch.clicks \o <<"delete", "confirm">>
    IN
    IF ch.raised THEN delete_ad_out(e, ch, FALSE, ch.clicks, 0, FALSE, FALSE, FALSE)
    ELSE IF ch.button = "none"
         THEN delete_ad_out(e, ch, FALSE, ch.clicks, IF e.shotFault THEN 0 ELSE 1,
                            FALSE, FALSE, FALSE)
    ELSE IF e.fault = "click" \/ ~e.deleteClick
         THEN delete_ad_out(e, ch, FALSE, del, 0, FALSE, FALSE, FALSE)
    ELSE IF e.fault = "confirm" \/ ~e.confirm
         THEN delete_ad_out(e, ch, FALSE, del, 0, TRUE, FALSE, FALSE)
    ELSE IF e.fault = "confirmClick" \/ ~e.confirmClick
         THEN delete_ad_out(e, ch, FALSE, conf, 0, TRUE, FALSE, FALSE)
    ELSE IF e.fault \in {"indicator", "refresh"}
         THEN delete_ad_out(e, ch, FALSE, conf, 0, TRUE, TRUE, FALSE)
    ELSE delete_ad_out(e, ch, TRUE, conf, 0,
                       TRUE, TRUE, TRUE)

\* delete_ad from the search for a delete control on (lines 231-330)
delete_ad_listed(e) ==
    LET ch == fallback_chain(e)
        del == ch.clicks \o <<"delete">>
        conf == ch.clicks \o <<"delete", "confirm">>
    IN
    IF ch.raised THEN delete_ad_out(e, ch, FALSE, ch.clicks, 0, FALSE, FALSE, FALSE)
    ELSE IF ch.button = "none"
         THEN delete_ad_out(e, ch, FALSE, ch.clicks, IF e.shotFault THEN 0 ELSE 1,
                            FALSE, FALSE, FALSE)
    ELSE IF e.fault = "click" \/ ~e.deleteClick
         THEN delete_ad_out(e, ch, FALSE, del, 0, FALSE, FALSE, FALSE)
    ELSE IF e.fault = "confirm" \/ ~e.confirm
         THEN delete_ad_out(e, ch, FALSE, del, 0, TRUE, FALSE, FALSE)
    ELSE IF e.fault = "confirmClick" \/ ~e.confirmClick
         THEN delete_ad_out(e, ch, FALSE, conf, 0, TRUE, FALSE, FALSE)
    ELSE IF e.fault \in {"indicator", "refresh"}
         THEN delete_ad_out(e, ch, FALSE, conf, 0, TRUE, TRUE, FALSE)
    ELSE delete_ad_out(e, ch, e.adsAfter = 0 \/ e.adsAfter < e.ads, conf, 0,
                       TRUE, TRUE, TRUE)

\* delete_ad with the "nothing to delete" test of line 225 lost: an empty
\* list of entries falls through to the search for a delete control
delete_ad_noemptytest(e) ==
    IF e.fault = "get" THEN delete_ad_out(e, NoChain, FALSE, <<>>, 0, FALSE, FALSE, FALSE)
    ELSE IF ~e.container THEN delete_ad_out(e, NoChain, TRUE, <<>>, 0, FALSE, FALSE, FALSE)
    ELSE delete_ad_listed(e)

\* delete_ad (lines 207-335)
delete_ad(e) ==
    IF e.fault = "get" THEN delete_ad_out(e, NoChain, FALSE, <<>>, 0, FALSE, FALSE, FALSE)
    ELSE IF ~e.container THEN delete_ad_out(e, NoChain, TRUE, <<>>, 0, FALSE, FALSE, FALSE)
    ELSE IF e.ads = 0 THEN delete_ad_out(e, NoChain, TRUE, <<>>, 0, FALSE, FALSE, FALSE)
    ELSE delete_ad_listed(e)

\* every outcome of one delete_ad call
DeleteOutcomes == {delete_ad(e) : e \in DeletePages}

\* run_job_delete returning False when delete_ad fails, as the login does
run_job_delete_abort ==
    /\ pc = "delete"
    /\ \E o \in DeleteOutcomes :
         IF o.ok
         THEN /\ run' = [run EXCEPT !.deletes = @ + 1, !.deleteOk = TRUE]
              /\ pc' = "create"
         ELSE /\ run' = [run EXCEPT !.deletes = @ + 1, !.pending = "failure"]
              /\ pc' = "finally"
    /\ UNCHANGED <<call, config, creds, argv, mainPc, driver, live, sessions, ad_data, runs>>

\* lines 604-608: the result of delete_ad only selects a log line
run_job_delete ==
    /\ pc = "delete"
    /\ \E o \in DeleteOutcomes :
         run' = [run EXCEPT !.deletes = @ + 1, !.deleteOk = o.ok]
    /\ pc' = "create"
    /\ UNCHANGED <<call, config, creds, argv, mainPc, driver, live, sessions, ad_data, runs>>

(* ----------------------------- create_ad ------------------------------- *)
\* What the posting page answers during one attempt.  fault: the driver
\* call that raises ("get": line 384, "fill": a lookup while filling,
\* "confirm": the lookup of line 528).  stays: after submit the location is
\* still the page the attempt navigated to; urlAfter / urlEnd: the location
\* read at line 522 / line 557 when it is not.  kwRound: the round of the
\* loop of line 527 after whose click the location carries a success
\* keyword (0: never).  shotFault: driver.save_screenshot raises.
CreatePages ==
    [fault : {"none", "get", "fill", "confirm"}, postcode : BOOLEAN,
     submit : BOOLEAN, submitClick : BOOLEAN, stays : BOOLEAN,
     urlAfter : Urls, urlEnd : Urls,
     final : BOOLEAN, finalClick : BOOLEAN, kwRound : 0..2,
     successMsg : BOOLEAN, shotFault : BOOLEAN]

\* driver.current_url after submit, at line 522 and at line 557
current_url(e, url, line) ==
    IF e.stays THEN url
    ELSE IF line = 522 THEN e.urlAfter ELSE e.urlEnd

\* what one create_ad call did.  res: "true" / "false" returned or "raise";
\* shots: snapshots saved; lookups: lookups of the confirmation controls
\* (line 528); why: the exit taken
create_ad_out(res, shots, lookups, why) ==
    [res |-> res, shots |-> shots, lookups |-> lookups, why |-> why]

\* the except block of lines 567-573: its own save_screenshot is not guarded
create_ad_except(e, lookups) ==
    IF e.shotFault
    THEN create_ad_out("raise", 0, lookups, "fault")
    ELSE create_ad_out("false", 1, lookups, "fault")

\* a snapshot taken inside the try (lines 391, 509, 563), then return False
create_ad_snapshot(e, lookups, why) ==
    IF e.shotFault
    THEN [create_ad_except(e, lookups) EXCEPT !.why = why]
    ELSE create_ad_out("false", 1, lookups, why)

\* create_ad with "for _ in range(3)" at line 527: a third round of
\* confirmation lookups before the success-notification check
create_ad_threerounds(e, isDict, url) ==
    IF ~isDict \/ e.fault = "get" THEN create_ad_except(e, 0)
    ELSE IF ~e.postcode THEN create_ad_snapshot(e, 0, "form")
    ELSE IF e.fault = "fill" THEN create_ad_except(e, 0)
    ELSE IF ~e.submit THEN create_ad_snapshot(e, 0, "submit")
    ELSE IF ~e.submitClick THEN create_ad_out("false", 0, 0, "click")
    ELSE IF "success" \in current_url(e, url, 522)
         THEN create_ad_out("true", 0, 0, "keyword")
    ELSE IF e.fault = "confirm" THEN create_ad_except(e, 1)
    ELSE IF e.final /\ e.finalClick /\ e.kwRound = 1
         THEN create_ad_out("true", 0, 1, "confirmed")
    ELSE IF e.final /\ e.finalClick /\ e.kwRound = 2
         THEN create_ad_out("true", 0, 2, "confirmed")
    ELSE IF e.successMsg THEN create_ad_out("true", 0, 3, "message")
    ELSE IF "post-ad" \notin current_url(e, url, 557)
                /\ "edit" \notin current_url(e, url, 557)
         THEN create_ad_out("true", 0, 3, "left")
    ELSE create_ad_snapshot(e, 3, "unconfirmed")

\* create_ad (lines 379-573) on loaded data; isDict: the data is a JSON
\* object (ad_data.get raises AttributeError on a list or a string); url:
\* its category_url, the page the attempt navigates to (lines 383-384).
create_ad(e, isDict, url) ==
    IF ~isDict \/ e.fault = "get" THEN create_ad_except(e, 0)
    ELSE IF ~e.postcode THEN create_ad_snapshot(e, 0, "form")
    ELSE IF e.fault = "fill" THEN create_ad_except(e, 0)
    ELSE IF ~e.submit THEN create_ad_snapshot(e, 0, "submit")
    ELSE IF ~e.submitClick THEN create_ad_out("false", 0, 0, "click")
    ELSE IF "success" \in current_url(e, url, 522)
         THEN create_ad_out("true", 0, 0, "keyword")
    ELSE IF e.fault = "confirm" THEN create_ad_except(e, 1)
    ELSE IF e.final /\ e.finalClick /\ e.kwRound = 1
         THEN create_ad_out("true", 0, 1, "confirmed")
    ELSE IF e.final /\ e.finalClick /\ e.kwRound = 2
         THEN create_ad_out("true", 0, 2, "confirmed")
    ELSE IF e.successMsg THEN create_ad_out("true", 0, 2, "message")
    ELSE IF "post-ad" \notin current_url(e, url, 557)
                /\ "edit" \notin current_url(e, url, 557)
         THEN create_ad_out("true", 0, 2, "left")
    ELSE create_ad_snapshot(e, 2, "unconfirmed")

\* every outcome of one create_ad call, paired with what the loaded data
\* is: <<isDict, url, outcome>>
CreateOutcomes ==
    {<<TRUE, u, create_ad(e, TRUE, u)>> :
        u \in CategoryUrls \cup {DefaultCategoryUrl}, e \in CreatePages}
    \cup {<<FALSE, DefaultCategoryUrl, create_ad(e, FALSE, DefaultCategoryUrl)>> :
        e \in CreatePages}

\* the retry loop without the break of line 616: the attempts go on after
\* a successful one
run_job_create_nobreak ==
    /\ pc = "create"
    /\ run.attempts < config.MAX_RETRIES
    /\ \E f \in (IF Truthy(ad_data) THEN {ad_data} ELSE AdDataFiles) :
         LET data == IF Truthy(ad_data) THEN ad_data ELSE load_ad_data_ret(f)
         IN
         /\ ad_data' = IF Truthy(ad_data) THEN ad_data ELSE load_ad_data_store(ad_data, f)
         /\ IF ~Truthy(data)
            THEN /\ run' = [run EXCEPT !.attempts = @ + 1, !.delays = @ + 1]
                 /\ pc' = "create"
            ELSE \E o \in {c[3] : c \in {d \in CreateOutcomes :
                                    /\ d[1] = (data.kind = "object")
                                    /\ d[2] = category_url(data)}} :
                   CASE o.res = "true" ->
                          /\ run' = [run EXCEPT !.attempts = @ + 1, !.created = TRUE,
                                                !.shots = @ + o.shots,
                                                !.pending = "success"]
                          /\ pc' = "create"
                     [] o.res = "false" ->
                          /\ run' = [run EXCEPT !.attempts = @ + 1, !.delays = @ + 1,
                                                !.shots = @ + o.shots,
                                                !.noForm = IF run.attempts = 0
                                                           THEN o.why = "form" ELSE @]
                          /\ pc' = "create"
                     [] o.res = "raise" ->
                          /\ run' = [run EXCEPT !.attempts = @ + 1, !.escaped = TRUE,
                                                !.shots = @ + o.shots,
                                                !.noForm = IF run.attempts = 0
                                                           THEN o.why = "form" ELSE @,
                                                !.pending = "failure"]
                          /\ pc' = "finally"
    /\ UNCHANGED <<call, config, creds, argv, mainPc, driver, live, sessions, runs>>

\* lines 612-619: one iteration of "for attempt in range(MAX_RETRIES)".
\* create_ad reads self.ad_data and loads the file itself only when that
\* is falsy (lines 371-377).  A fault leaving create_ad is caught at line
\* 628 and run_job returns False.
run_job_create ==
    /\ pc = "create"
    /\ run.attempts < config.MAX_RETRIES
    /\ \E f \in (IF Truthy(ad_data) THEN {ad_data} ELSE AdDataFiles) :
         LET data == IF Truthy(ad_data) THEN ad_data ELSE load_ad_data_ret(f)
         IN
         /\ ad_data' = IF Truthy(ad_data) THEN ad_data ELSE load_ad_data_store(ad_data, f)
         /\ IF ~Truthy(data)
            THEN /\ run' = [run EXCEPT !.attempts = @ + 1, !.delays = @ + 1]
                 /\ pc' = "create"
            ELSE \E o \in {c[3] : c \in {d \in CreateOutcomes :
                                    /\ d[1] = (data.kind = "object")
                                    /\ d[2] = category_url(data)}} :
                   CASE o.res = "true" ->
                          /\ run' = [run EXCEPT !.attempts = @ + 1, !.created = TRUE,
                                                !.shots = @ + o.shots,
                                                !.pending = "success"]
                          /\ pc' = "finally"
                     [] o.res = "false" ->
                          /\ run' = [run EXCEPT !.attempts = @ + 1, !.delays = @ + 1,
                                                !.shots = @ + o.shots,
                                                !.noForm = IF run.attempts = 0
                                                           THEN o.why = "form" ELSE @]
                          /\ pc' = "create"
                     [] o.res = "raise" ->
                          /\ run' = [run EXCEPT !.attempts = @ + 1, !.escaped = TRUE,
                                                !.shots = @ + o.shots,
                                                !.noForm = IF run.attempts = 0
                                                           THEN o.why = "form" ELSE @,
                                                !.pending = "failure"]
                          /\ pc' = "finally"
    /\ UNCHANGED <<call, config, creds, argv, mainPc, driver, live, sessions, runs>>

\* run_job_exhausted without the "if not success" test of line 621: the
\* run falls through to "return True"
run_job_exhausted_true ==
    /\ pc = "create"
    /\ run.attempts >= config.MAX_RETRIES
    /\ run' = [run EXCEPT !.pending = "success"]
    /\ pc' = "finally"
    /\ UNCHANGED <<call, config, creds, argv, mainPc, driver, live, sessions, ad_data, runs>>

\* lines 621-623: the loop ended without a successful attempt
run_job_exhausted ==
    /\ pc = "create"
    /\ run.attempts >= config.MAX_RETRIES
    /\ run' = [run EXCEPT !.pending = "failure"]
    /\ pc' = "finally"
    /\ UNCHANGED <<call, config, creds, argv, mainPc, driver, live, sessions, ad_data, runs>>

\* WebDriverWrapper.close (lines 125-129)
close_driver == 0
close_live == IF driver # 0 THEN live \ {driver} ELSE live
close_quits == IF driver # 0 THEN 1 ELSE 0

\* lines 632-634: the finally block, then the pending return
run_job_finally ==
    /\ pc = "finally"
    /\ driver' = close_driver
    /\ live' = close_live
    /\ run' = [run EXCEPT !.released = @ + close_quits, !.result = run.pending]
    /\ pc' = "done"
    /\ UNCHANGED <<call, config, creds, argv, mainPc, sessions, ad_data, runs>>

(* ------------------------- KeyboardInterrupt --------------------------- *)
\* An external interrupt (SIGINT) raises KeyboardInterrupt in the call that
\* is executing.  It is no Exception: the handlers of lines 202, 332, 567,
\* 589 and 628 let it pass.  Before the try of line 595 it leaves run_job at
\* once; inside it the finally block runs first.
interrupt_run ==
    /\ pc \in {"jitter", "init", "load", "login", "delete", "create"}
    /\ IF pc \in {"jitter", "init"}
       THEN /\ run' = [run EXCEPT !.interrupted = TRUE, !.result = "interrupted"]
            /\ pc' = "done"
       ELSE /\ run' = [run EXCEPT !.interrupted = TRUE, !.pending = "interrupted"]
            /\ pc' = "finally"
    /\ UNCHANGED <<call, config, creds, argv, mainPc, driver, live, sessions, ad_data, runs>>

\* the interrupt arrives between two runs, in run_pending or time.sleep(60)
\* (lines 648-649): line 650 catches it and start_scheduler returns
interrupt_loop ==
    /\ mainPc = "loop"
    /\ pc = "idle"
    /\ mainPc' = "stopped"
    /\ UNCHANGED <<call, config, creds, argv, pc, driver, live, sessions, ad_data, runs, run>>

KeyboardInterrupt ==
    \/ interrupt_run
    \/ interrupt_loop

(* ------------------------------ system --------------------------------- *)
run_job ==
    \/ run_job_delay
    \/ initialize
    \/ run_job_load
    \/ run_job_login
    \/ run_job_delete
    \/ run_job_create
    \/ run_job_exhausted
    \/ run_job_finally

Next ==
    \/ main
    \/ once_return
    \/ start_scheduler
    \/ run_pending
    \/ run_pending_return
    \/ run_job

Spec == Init /\ [][Next]_vars

\* the program with external interrupts
NextInt ==
    \/ Next
    \/ KeyboardInterrupt

IntSpec == Init /\ [][NextInt]_vars

\* run_job is sequential code whose every call returns: a run that has a
\* step to take takes it
FairSpec == Spec /\ WF_vars(run_job)

\* the polling loop of lines 647-649 keeps running and schedule fires a job
\* whose interval has elapsed: a scheduler step that can be taken is taken
SchedSpec ==
    Spec /\ WF_vars(run_job) /\ WF_vars(start_scheduler)
         /\ WF_vars(run_pending) /\ WF_vars(run_pending_return)

(* ----------------- delete_ad and create_ad on their own ----------------- *)
\* the defaults of lines 41-43 (the jitter bound within MaxDelay)
DefaultConfig ==
    [MAX_RETRIES |-> 3, RANDOM_DELAY_MIN |-> 0, RANDOM_DELAY_MAX |-> MaxDelay]

\* payloads create_ad is called on: an object with every required field,
\* without and with a category_url, and a non-empty array
CallPayloads ==
    {f \in AdDataFiles : /\ Truthy(f)
                         /\ \/ f.kind = "object" /\ required_fields \subseteq f.keys
                            \/ f.kind = "array"}

\* one call of delete_ad (lines 207-335) on a listings page
call_delete_ad ==
    /\ call.fn = "none"
    /\ \E e \in DeletePages :
         call' = [fn |-> "delete_ad", env |-> e, data |-> None, out |-> delete_ad(e)]
    /\ UNCHANGED <<config, creds, argv, mainPc, pc, driver, live, sessions,
                   ad_data, runs, run>>

\* one call of create_ad (lines 366-573) on a loaded payload and a posting page
call_create_ad ==
    /\ call.fn = "none"
    /\ \E e \in CreatePages, d \in CallPayloads :
         call' = [fn |-> "create_ad", env |-> e, data |-> d,
                  out |-> create_ad(e, d.kind = "object", category_url(d))]
    /\ UNCHANGED <<config, creds, argv, mainPc, pc, driver, live, sessions,
                   ad_data, runs, run>>

CallInit == Init /\ config = DefaultConfig /\ creds /\ argv = "none"

CallNext == call_delete_ad \/ call_create_ad

CallSpec == CallInit /\ [][CallNext]_vars

TypeOK ==
    /\ call.fn \in {"none", "delete_ad", "create_ad"}
    /\ config \in Configs
    /\ pc \in {"idle", "jitter", "init", "load", "login", "delete", "create", "finally", "done"}
    /\ mainPc \in {"start", "once", "first_run", "loop", "checked", "exited",
                 "stopped", "killed"}
    /\ driver \in 0..MaxRuns
    /\ runs \in 0..MaxRuns

(* ------------------------------ claims --------------------------------- *)
\* the run_job invocation has ended (returned or raised)
RunEnded == pc = "done"

\* C1: in every run the session acquired for the run is released exactly
\* once: never more releases than acquisitions, and none missing when the
\* run has ended.
C1_ReleasedExactlyOnce ==
    /\ run.released <= run.acquired
    /\ RunEnded => run.released = run.acquired

\* C2: when loading the listing data fails, load_ad_data returns the
\* failure indicator and no session has been acquired in that run.
C2_NoSessionWhenLoadFails ==
    (run.loads >= 1 /\ run.loaded.status \in {"missing", "unreadable", "malformed"})
        => (~run.loadOk /\ run.acquired = 0)

\* C3: a run that reached the creation step and ended without a successful
\* attempt made exactly MAX_RETRIES attempts and reports failure.
C3_ExactlyMaxRetriesAttempts ==
    (RunEnded /\ run.deletes = 1 /\ ~run.created)
        => (run.attempts = config.MAX_RETRIES /\ run.result = "failure")

\* C4: a run whose creation attempts all returned failure applied the
\* inter-attempt delay exactly MAX_RETRIES - 1 times.
C4_DelaysBetweenAttemptsOnly ==
    (RunEnded /\ run.deletes = 1 /\ ~run.created /\ ~run.escaped
       /\ config.MAX_RETRIES >= 1)
        => run.delays = config.MAX_RETRIES - 1

\* C5: a JSON object missing some of title, description, postcode loads
\* successfully and the run proceeds to the authentication step.
C5_MissingFieldsNotFatal ==
    (run.loads = 1 /\ run.loaded.status = "ok" /\ run.loaded.kind = "object"
       /\ missing_fields(run.loaded) # {})
        => (run.loadOk /\ (run.logins = 0 => pc = "login"))
\* C6: when the login fails, it was attempted exactly once in the run, no
\* deletion and no creation attempt is made, and the run ends in failure.
C6_AuthFailureAborts ==
    (run.logins >= 1 /\ ~run.loginOk)
        => /\ run.logins = 1
           /\ run.deletes = 0
           /\ run.attempts = 0
           /\ run.pending = "failure"
           /\ run.result \in {"none", "failure"}
           /\ RunEnded => run.result = "failure"

C6_Witness ==
    RunEnded /\ run.logins = 1 /\ ~run.loginOk /\ run.result = "failure"

\* C7: a failed deletion step does not abort the run: the step hands over
\* to the creation loop with no attempt and no delay spent and no failure
\* pending, and such a run ends only through the creation step.
C7_DeletionFailureContinues ==
    /\ [][(run'.deletes > run.deletes /\ ~run'.deleteOk)
            => (pc' = "create" /\ run'.attempts = 0 /\ run'.delays = 0
                /\ run'.pending = "none")]_vars
    /\ []((run.deletes = 1 /\ ~run.deleteOk /\ run.result # "none")
            => (run.created \/ run.escaped \/ run.attempts = config.MAX_RETRIES))

C7_Witness ==
    RunEnded /\ run.deletes = 1 /\ ~run.deleteOk /\ run.result = "success"

\* C8: a run reports success exactly when one of its creation attempts
\* succeeded; a run whose session acquisition, data load or login failed, or
\* whose creation attempts all failed, reports failure.
C8_SuccessIffCreated ==
    RunEnded =>
        /\ run.result = "success" <=> run.created
        /\ (run.inits = 1 /\ run.loads = 0) => run.result = "failure"
        /\ (run.loads = 1 /\ run.logins = 0) => run.result = "failure"
        /\ (run.logins = 1 /\ ~run.loginOk) => run.result = "failure"
        /\ (run.deletes = 1 /\ ~run.created) => run.result = "failure"

C8_Witness ==
    RunEnded /\ run.created /\ run.deleteOk /\ run.attempts = 2
        /\ run.result = "success"

\* C9: within a run the steps come in the order data load, login, deletion,
\* creation attempts: each step starts only after the one before has
\* succeeded (the deletion: has finished), and nothing runs once the run
\* has its result.
C9_StepOrder ==
    [][/\ (run'.loads > run.loads)
            => (run.logins = 0 /\ run.deletes = 0 /\ run.attempts = 0)
       /\ (run'.logins > run.logins)
            => (run.loads = 1 /\ run.loadOk /\ run.deletes = 0 /\ run.attempts = 0)
       /\ (run'.deletes > run.deletes)
            => (run.logins = 1 /\ run.loginOk /\ run.attempts = 0)
       /\ (run'.attempts > run.attempts) => run.deletes = 1
       /\ (run.result # "none") => (run' = run \/ run' = NewRun)]_vars

C9_Witness ==
    RunEnded /\ run.loads = 1 /\ run.logins = 1 /\ run.deletes = 1
        /\ run.attempts = 3 /\ run.created

\* C10: every run ends as Succeeded or Failed, with at most one login and
\* one deletion: a run that has ended returned True or False.
C10_RunEndsSucceededOrFailed ==
    /\ run.logins <= 1
    /\ run.deletes <= 1
    /\ RunEnded => run.result \in {"success", "failure"}

\* every run that is started ends (checked under FairSpec)
RunTerminates == (pc = "jitter") ~> RunEnded
\* C11: when the listings container is absent, or present without entries,
\* delete_ad reports success and issues no click at all.
C11_NothingToDeleteNoClick ==
    (/\ call.fn = "delete_ad"
     /\ call.env.fault # "get"
     /\ ~call.env.container \/ call.env.ads = 0)
        => (call.out.ok /\ call.out.clicks = <<>> /\ call.out.tried = <<>>)

C11_Witness ==
    /\ call.fn = "delete_ad" /\ call.env.fault = "none"
    /\ call.env.container /\ call.env.ads = 0 /\ call.env.direct
    /\ call.out.ok /\ call.out.clicks = <<>> /\ call.out.page = "empty"
\* C12: start_scheduler fires a first run on start and, without an
\* interrupt, goes on firing runs forever: the first run is called as soon
\* as the scheduler starts, and the scheduler never stops.
C12_SchedulerFiresForever ==
    (creds /\ argv = "none")
        => /\ mainPc \in {"start", "first_run", "loop"}
           /\ mainPc = "first_run" => runs >= 1

\* after every run of the scheduler that returned True or False the next
\* run is fired (checked under SchedSpec, up to MaxRuns runs)
NextRunFired ==
    \A k \in 1..(MaxRuns - 1) :
        (mainPc \in {"first_run", "loop"} /\ runs = k /\ RunEnded
           /\ run.result \in {"success", "failure"}) ~> (runs = k + 1)
\* C13: before every run, the first and every scheduled one, a delay within
\* the configured bounds (a non-empty range min..max) is drawn in that run
\* and slept before the session is acquired.
C13_DelayBeforeEveryRun ==
    [][(run'.inits > run.inits
          /\ config.RANDOM_DELAY_MIN <= config.RANDOM_DELAY_MAX)
         => /\ pc = "init"
            /\ run.slept \in config.RANDOM_DELAY_MIN..config.RANDOM_DELAY_MAX
            /\ config.RANDOM_DELAY_MAX > 0
                 => (run.jitter \in config.RANDOM_DELAY_MIN..config.RANDOM_DELAY_MAX
                     /\ run.slept = run.jitter)]_vars

C13_Witness ==
    mainPc = "loop" /\ runs = 2 /\ pc = "load" /\ run.jitter = 2 /\ run.slept = 2
\* C14: runs never overlap and never interleave with the schedule check: a
\* run is fired only when no run is in progress, and whenever control is
\* back with the driver the run that was started has reached its end.
C14_RunsNeverOverlap ==
    /\ [][(runs' > runs) => (pc = "idle" /\ (runs > 0 => run.result # "none"))]_vars
    /\ []((pc = "idle" /\ runs > 0) => run.result # "none")

C14_Witness ==
    mainPc = "loop" /\ runs = 2 /\ pc = "finally" /\ run.attempts = 2
\* C15: an interrupt that arrives while a run is in progress does not
\* cancel the run: the run still ends as Succeeded or Failed.
C15_InterruptDoesNotCancelRun ==
    (run.interrupted /\ RunEnded) => run.result \in {"success", "failure"}

\* C16: an interrupt delivered at any point after start_scheduler was
\* called stops the driver cleanly: it never propagates out of
\* start_scheduler, and once the driver has stopped no run is in progress.
C16_InterruptStopsCleanly ==
    argv = "none"
        => /\ mainPc # "killed"
           /\ mainPc = "stopped" => pc = "idle"

\* C17: each run uses a session of its own, at most one session is live at
\* any time, and none is live when no run is in progress.
C17_OneFreshSessionPerRun ==
    /\ Cardinality(live) <= 1
    /\ driver # 0 => (driver = run.session /\ live = {driver})
    /\ pc \in {"idle", "jitter", "init", "done"} => live = {}
\* C18: every creation attempt of a run works on the payload that the same
\* run loaded, also when the file changed since an earlier run, and the
\* payload held changes only where load_ad_data is called.
C18_PayloadFreshEachRun ==
    [][/\ (run'.attempts > run.attempts)
            => (Truthy(ad_data) /\ ad_data = run.loaded /\ ad_data' = ad_data)
       /\ (ad_data' # ad_data) => (pc = "load" \/ mainPc = "start")]_vars

C18_Witness ==
    runs = 2 /\ run.changed /\ run.attempts >= 1 /\ ad_data = run.loaded
\* C19: with the email or the password missing the process exits from its
\* start in every CLI mode: no run is attempted, the data file is not
\* loaded, no session is acquired and the scheduler is not started.
C19_MissingCredentialsExit ==
    ~creds => /\ mainPc \in {"start", "exited"}
              /\ runs = 0
              /\ sessions = 0
              /\ live = {}
              /\ ad_data = None
              /\ pc = "idle"

C19_Witness == ~creds /\ mainPc = "exited" /\ argv = "--check"

\* C20: only the no-argument mode reaches the scheduler; only the no-argument
\* and --once modes acquire a session; --once makes exactly one run and
\* exits; --check only loads the data; any other argument does nothing.
C20_CliDispatch ==
    /\ mainPc \in {"first_run", "loop", "stopped"} => argv = "none"
    /\ sessions > 0 => argv \in {"none", "--once"}
    /\ argv = "--once" => /\ runs <= 1
                          /\ mainPc \in {"start", "once", "exited", "killed"}
                          /\ (creds /\ mainPc \in {"exited", "killed"}) => runs = 1
    /\ argv = "--check" => /\ runs = 0 /\ sessions = 0 /\ pc = "idle"
                           /\ mainPc \in {"start", "checked", "exited"}
                           /\ mainPc = "exited" => ~creds
    /\ argv = "other" => /\ runs = 0 /\ sessions = 0 /\ pc = "idle"
                         /\ ad_data = None
                         /\ mainPc \in {"start", "exited"}

C20_Witness ==
    argv = "--once" /\ mainPc = "exited" /\ runs = 1 /\ run.result = "success"
        /\ sessions = 1
C22_OneConfirmationRound ==
    call.fn = "create_ad" => call.out.lookups <= 1

\* C22: after a submit whose location carries no success keyword, a
\* creation attempt looks the confirmation controls up at most twice (the
\* two rounds of line 527), never before the submit, and it reaches the
\* success-notification check only after both rounds.
C22_AtMostTwoConfirmationRounds ==
    call.fn = "create_ad" =>
        /\ call.out.lookups <= 2
        /\ call.out.lookups > 0 =>
              /\ call.env.postcode /\ call.env.submit /\ call.env.submitClick
              /\ "success" \notin current_url(call.env, category_url(call.data), 522)
        /\ call.out.why \in {"message", "left", "unconfirmed"} => call.out.lookups = 2

C22_Witness ==
    /\ call.fn = "create_ad" /\ call.out.lookups = 2 /\ call.out.why = "message"
    /\ call.env.final /\ call.env.finalClick /\ call.out.res = "true"
\* C23: a fault raised during a creation attempt stays inside create_ad: no
\* fault leaves it, and while no attempt has succeeded and the retry budget
\* is not used up the run is still in its retry loop.
C23_AttemptFaultContained ==
    /\ ~run.escaped
    /\ (run.attempts >= 1 /\ ~run.created /\ run.attempts < config.MAX_RETRIES)
            => pc = "create"
\* C24: once the click on a delete control succeeded, delete_ad reports
\* success exactly when a confirmation control was found and clicked and,
\* after the reload, fewer entries than before or none are listed; without
\* a confirmation control, with a failed confirmation click or with a count
\* that did not decrease it reports failure.
C24_DeletionSuccessCriterion ==
    (call.fn = "delete_ad" /\ call.out.deleted) =>
        /\ call.out.ok <=>
              /\ call.out.confirmed /\ call.out.reloaded
              /\ call.env.adsAfter = 0 \/ call.env.adsAfter < call.env.ads
        /\ call.out.confirmed => (call.env.confirm /\ call.env.confirmClick)
        /\ (\/ ~call.env.confirm
            \/ ~call.env.confirmClick
            \/ (call.env.adsAfter > 0 /\ call.env.adsAfter >= call.env.ads))
              => ~call.out.ok

C24_Witness ==
    /\ call.fn = "delete_ad" /\ call.out.deleted /\ call.out.ok
    /\ call.env.ads = 2 /\ call.env.adsAfter = 1
    /\ call.out.clicks = <<"delete", "confirm">>

\* C25: delete_ad evaluates the strategies in the order direct button, menu
\* button then delete option, labelled icon button, and the first that
\* yields a control wins: the menu is opened only if the direct lookup
\* found nothing, the icon lookup is made only if both before it found
\* nothing, and only when all three find nothing is a snapshot taken and
\* failure reported, with no click on a delete or confirm control.
C25_FallbackOrder ==
    (call.fn = "delete_ad" /\ call.out.tried # <<>>) =>
        LET e == call.env
            o == call.out
            none == ~e.direct /\ ~(e.menu /\ e.menuDelete) /\ ~e.icon
            clicked(c) == \E i \in 1..Len(o.clicks) : o.clicks[i] = c
        IN
        /\ o.tried \in {<<"direct">>, <<"direct", "menu">>, <<"direct", "menu", "icon">>}
        /\ clicked("menu") => ~e.direct
        /\ Len(o.tried) >= 2 => ~e.direct
        /\ Len(o.tried) = 3 => ~(e.menu /\ e.menuDelete)
        /\ (e.direct /\ e.fault # "direct") => (o.button = "direct" /\ o.clicks[1] = "delete")
        /\ o.button = "menu" => (~e.direct /\ e.menu /\ e.menuDelete)
        /\ o.button = "icon" => (~e.direct /\ ~(e.menu /\ e.menuDelete) /\ e.icon)
        /\ o.shots >= 1 => (none /\ Len(o.tried) = 3)
        /\ (none /\ Len(o.tried) = 3 /\ e.fault # "icon") =>
              /\ ~o.ok /\ ~clicked("delete") /\ ~clicked("confirm")
              /\ o.shots = (IF e.shotFault THEN 0 ELSE 1)

C25_Witness ==
    /\ call.fn = "delete_ad" /\ call.out.tried = <<"direct", "menu", "icon">>
    /\ call.out.button = "icon" /\ call.out.ok
    /\ call.out.clicks = <<"menu", "delete", "confirm">>
\* C26: a creation attempt that submitted the form and whose location then
\* never leaves the page it navigated to, with no success keyword in it and
\* no success notification on the page, does not report success, whatever
\* category_url is.
C26_StayingOnPageIsFailure ==
    (/\ call.fn = "create_ad"
     /\ call.data.kind = "object"
     /\ call.env.fault = "none"
     /\ call.env.postcode /\ call.env.submit /\ call.env.submitClick
     /\ call.env.stays /\ call.env.kwRound = 0
     /\ "success" \notin category_url(call.data)
     /\ ~call.env.successMsg)
        => call.out.res # "true"

\* C27: run_job never raises to its caller, so a run that met a fault never
\* ends start_scheduler.
C27_RunJobNeverRaises ==
    /\ run.result # "raised"
    /\ (creds /\ argv = "none") => mainPc # "exited"
====
